---- MODULE Spec2Model ----
(***************************************************************************)
(* The ingestion pipeline of AutoCollectNews (src/main.py): the search     *)
(* tasks run by the thread pool of NewsScraper.run, the shared dedup set   *)
(* existing_urls, ArticleProcessor.process_single_article with its fetch   *)
(* retries and its two enrichment calls, and DatabaseManager.save_articles *)
(* on the articles table.                                                  *)
(*                                                                         *)
(* Text is modelled as a sequence of one-character strings wherever the    *)
(* code looks inside it (URLs).  The Chinese literals of the source are    *)
(* written in English: UNRELATED is the sentinel category of main.py:405,  *)
(* EVAL_FAILED the default reason of main.py:411, UNKNOWN the default of   *)
(* main.py:378-379 and 402, OTHER_CATEGORY the default of main.py:415 and  *)
(* INDUSTRY_NEWS the sub_category of main.py:223.                          *)
(***************************************************************************)
EXTENDS Naturals, Integers, Sequences, FiniteSets, Bags, TLC

VARIABLES
    store,          \* the rows of table articles, in insertion (id) order
    loaded,         \* the set get_existing_urls() returned in NewsScraper.__init__
    existing_urls,  \* NewsScraper.existing_urls, shared by the pool workers
    pc,             \* pc[t]: where the worker running task t stands
    search_results, \* search_results[t]: the links of the items search() returned
    idx,            \* idx[t]: position of the for loop of process_search_task
    last,           \* the last call of process_single_article, by any worker
    articles,       \* articles[t]: the list process_search_task is building
    all_articles,   \* run(): the articles collected from finished futures
    collected,      \* run(): the futures as_completed has already yielded
    mainpc,         \* run(): where the main thread stands
    saved_batch,    \* the list run() handed to save_articles (<<>> when none)
    saved_count,    \* what that save_articles call returned
    passed,         \* history: <<t, url>> for every membership test a worker passed
    sv_batch,       \* SaveSpec: the article list A given to save_articles
    sv_snaps,       \* SaveSpec: the table before the first call and after each call
    sv_rets,        \* SaveSpec: what each call returned
    fn_call,        \* CallSpec: the function called and its argument
    fn_results,     \* CallSpec: what each call of it returned
    txn,            \* KillSpec: the open transaction of save_articles
    dash            \* DashSpec: the article list of the dashboard (dashboard.py)

vars == <<store, loaded, existing_urls, pc, search_results, idx, last, articles,
          all_articles, collected, mainpc, saved_batch, saved_count, passed,
          sv_batch, sv_snaps, sv_rets, fn_call, fn_results, txn, dash>>

pipeline_vars == <<loaded, existing_urls, pc, search_results, idx, last, articles,
                   all_articles, collected, mainpc, saved_batch, saved_count,
                   passed>>

save_vars == <<sv_batch, sv_snaps, sv_rets>>

call_vars == <<fn_call, fn_results>>

\* What a specification leaves alone when it is not about these.
NoSave == sv_batch = <<>> /\ sv_snaps = <<>> /\ sv_rets = <<>>

NoCalls == fn_call = [fn |-> "", arg |-> <<>>] /\ fn_results = <<>>

NoTxn == txn = [run |-> 0, open |-> FALSE, rows |-> <<>>, next |-> 0, saved_count |-> 0]

NoDash == dash = [has_page |-> FALSE, page |-> 0, filtered |-> 0, shown |-> 0, enabled |-> {}]

-----------------------------------------------------------------------------
(* Bounds of the model.                                                    *)

NumTasks == 2       \* search tasks submitted to the pool
MaxResults == 2     \* items in one search response
MaxItems == 3       \* items in all the search responses of a run
MaxBatch == 3       \* SaveSpec: length of the article list
MaxSaveCalls == 2   \* SaveSpec: calls of save_articles with that list
MaxCalls == 2       \* CallSpec: calls of a function with the same argument
MaxRuns == 2        \* KillSpec: runs of the program on the same table
MaxFiltered == 25   \* DashSpec: articles that pass the filters of the dashboard
MaxDrift == 2       \* DashSpec: pages the page index is followed outside the list

-----------------------------------------------------------------------------
(* Program constants.                                                      *)

MAX_WORKERS == 10
RETRY_COUNT == 3
MIN_TEXT_LEN == 200
HIGH_VALUE == 70
SCORE_MIN == 0      \* the range the scoring prompt declares
SCORE_MAX == 100
items_per_page == 10    \* dashboard.py:588

UNRELATED == "unrelated"
EVAL_FAILED == "evaluation failed"
UNKNOWN == "unknown"
UNKNOWN_DATE == <<"u","n","k","n","o","w","n">>   \* the same value, as text
OTHER_CATEGORY == "other"
INDUSTRY_NEWS == "industry news"

\* Python's None where the code reads an absent link, and a missing dict key.
None == "None"
Missing == "<missing>"

-----------------------------------------------------------------------------
(* Text helpers: str.startswith, str.endswith, `in', str.find, str.lower.  *)

StartsWith(s, p) == Len(s) >= Len(p) /\ SubSeq(s, 1, Len(p)) = p

EndsWith(s, p) == Len(s) >= Len(p) /\ SubSeq(s, Len(s) - Len(p) + 1, Len(s)) = p

Contains(s, sub) ==
    \E i \in 1..(Len(s) + 1) :
        i + Len(sub) - 1 <= Len(s) /\ SubSeq(s, i, i + Len(sub) - 1) = sub

\* The first position >= from holding a character of cs, Len(s) + 1 when none.
FindAny(s, cs, from) ==
    LET hits == {i \in from..Len(s) : s[i] \in cs}
    IN  IF hits = {} THEN Len(s) + 1
        ELSE CHOOSE i \in hits : \A j \in hits : i <= j

\* The last position holding c, 0 when none (str.rfind + 1).
RFind(s, c) ==
    LET hits == {i \in 1..Len(s) : s[i] = c}
    IN  IF hits = {} THEN 0
        ELSE CHOOSE i \in hits : \A j \in hits : i >= j

LowerChar(c) ==
    CASE c = "A" -> "a" [] c = "B" -> "b" [] c = "C" -> "c" [] c = "D" -> "d"
      [] c = "E" -> "e" [] c = "F" -> "f" [] c = "G" -> "g" [] c = "H" -> "h"
      [] c = "I" -> "i" [] c = "J" -> "j" [] c = "K" -> "k" [] c = "L" -> "l"
      [] c = "M" -> "m" [] c = "N" -> "n" [] c = "O" -> "o" [] c = "P" -> "p"
      [] c = "Q" -> "q" [] c = "R" -> "r" [] c = "S" -> "s" [] c = "T" -> "t"
      [] c = "U" -> "u" [] c = "V" -> "v" [] c = "W" -> "w" [] c = "X" -> "x"
      [] c = "Y" -> "y" [] c = "Z" -> "z" [] OTHER -> c

Lower(s) == [i \in 1..Len(s) |-> LowerChar(s[i])]

-----------------------------------------------------------------------------
(* SearchStrategyManager: the blacklists and is_url_blacklisted.           *)

DOMAIN_BLACKLIST ==
    { <<"y","o","u","t","u","b","e",".","c","o","m">>,
      <<"b","i","l","i","b","i","l","i",".","c","o","m">>,
      <<"f","a","c","e","b","o","o","k",".","c","o","m">>,
      <<"t","w","i","t","t","e","r",".","c","o","m">>,
      <<"i","n","s","t","a","g","r","a","m",".","c","o","m">>,
      <<"p","i","n","t","e","r","e","s","t",".","c","o","m">>,
      <<"l","i","n","k","e","d","i","n",".","c","o","m">>,
      <<"r","e","d","d","i","t",".","c","o","m">>,
      <<"t","i","k","t","o","k",".","c","o","m">>,
      <<"q","u","o","r","a",".","c","o","m">>,
      <<"z","h","i","h","u",".","c","o","m">>,
      <<"s","o","h","u",".","c","o","m">>,
      <<"t","h","e","v","e","r","g","e",".","c","o","m">>,
      <<"a","m","a","z","o","n",".","c","o","m">>,
      <<"t","m","a","l","l",".","c","o","m">>,
      <<"j","d",".","c","o","m">>,
      <<"t","a","o","b","a","o",".","c","o","m">>,
      <<"a","l","i","e","x","p","r","e","s","s",".","c","o","m">>,
      <<"v","m","a","l","l",".","c","o","m">>,
      <<"s","h","u","t","t","e","r","s","t","o","c","k",".","c","o","m">>,
      <<"a","d","o","b","e","s","t","o","c","k",".","c","o","m">>,
      <<"g","e","t","t","y","i","m","a","g","e","s",".","c","o","m">>,
      <<"b","e","h","a","n","c","e",".","n","e","t">>,
      <<"y","o","h","o","h","o","n","g","k","o","n","g",".","c","o","m">>,
      <<"b","u","k","s","h","i","s","h","a",".","c","o","m">>,
      <<"d","r","s","e","l","i","m","g","u","l","d","i","k","e","n",".","c","o","m">>,
      <<"w","i","n","b","o","4","x","4",".","c","o","m">>,
      <<"t","o","r","t","i","l","l","a","s","d","u","r","u","m",".","c","o","m">>,
      <<"c","e","n","t","r","o","o","l","e","o","d","i","n","a","m","i","c","a",".","c","o","m">>,
      <<"q","u","e","e","n","s","t","r","e","e","t","o","n","l","i","n","e",".","c","o","m">>,
      <<"s","h","o","p","l","c",".","c","o","m">>,
      <<"i","5","a","6",".","c","o","m">>,
      <<"r","e","v","n","a","b","i","o",".","c","o","m">>,
      <<"w","i","z","e","v","o",".","c","o","m">>,
      <<"h","u","a","d","i","c","n",".","c","o","m">>,
      <<"m","a","n","u","a","l","s",".","p","l","u","s">>,
      <<"i","n","s","p","i","r","e",".","c","o","m">>,
      <<"m","e","d","e","s","t","h","e","t","i","c","s","m","a","g",".","c","o","m">>,
      <<"f","i","t","t","o","p","f","a","c","t","o","r","y",".","c","o","m">> }

EXTENSION_BLACKLIST ==
    { <<".","p","d","f">>,
      <<".","j","p","g">>,
      <<".","j","p","e","g">>,
      <<".","p","n","g">>,
      <<".","g","i","f">>,
      <<".","z","i","p">>,
      <<".","r","a","r">>,
      <<".","d","o","c","x">>,
      <<".","x","l","s","x">>,
      <<".","m","p","4">>,
      <<".","a","v","i">> }

\* urllib.parse.urlparse on a URL that starts with http:// or https://: the
\* netloc runs from after "//" to the first of / ? #, a netloc with one
\* square bracket but not the other raises ValueError, the path runs to the
\* first of ? # and loses the ;parameters of its last segment.
urlparse(url) ==
    LET slashes == FindAny(url, {"/"}, 1)
        start   == slashes + 2
        stop    == FindAny(url, {"/", "?", "#"}, start)
        netloc  == SubSeq(url, start, stop - 1)
        pathend == FindAny(url, {"?", "#"}, stop)
        rawpath == SubSeq(url, stop, pathend - 1)
        semi    == FindAny(rawpath, {";"}, RFind(rawpath, "/") + 1)
        path    == SubSeq(rawpath, 1, semi - 1)
        open    == \E i \in 1..Len(netloc) : netloc[i] = "["
        close   == \E i \in 1..Len(netloc) : netloc[i] = "]"
    IN  [raised |-> open # close, netloc |-> netloc, path |-> path]

HasScheme(url) ==
    \/ StartsWith(url, <<"h","t","t","p",":","/","/">>)
    \/ StartsWith(url, <<"h","t","t","p","s",":","/","/">>)

\* URLs given to is_url_blacklisted on its own: no scheme, another scheme, the
\* scheme in capitals; a blacklisted domain as host, inside a longer host, in
\* capitals, in the path, after user information; a blacklisted extension in
\* small letters, in capitals, before a query, a fragment and ;parameters,
\* in the query, before a final slash; a netloc with an unmatched bracket.
UrlSamples ==
    {
      <<>>,
      <<"f","t","p",":","/","/","n",".","i","o","/","a">>,
      <<"n",".","i","o","/","a">>,
      <<"H","T","T","P",":","/","/","n",".","i","o","/","a">>,
      <<"h","t","t","p","s",":","/","/","n",".","i","o","/","a">>,
      <<"h","t","t","p",":","/","/","n",".","i","o","/","b">>,
      <<"h","t","t","p","s",":","/","/","m",".","y","o","u","t","u","b","e",".","c","o","m","/","v">>,
      <<"h","t","t","p","s",":","/","/","Y","o","u","T","u","b","e",".","c","o","m","/","v">>,
      <<"h","t","t","p","s",":","/","/","n","o","t","y","o","u","t","u","b","e",".","c","o","m",".","e","v","i","l",".","i","o","/">>,
      <<"h","t","t","p","s",":","/","/","n",".","i","o","/","y","o","u","t","u","b","e",".","c","o","m">>,
      <<"h","t","t","p","s",":","/","/","n",".","i","o","/","a",".","p","d","f">>,
      <<"h","t","t","p","s",":","/","/","n",".","i","o","/","a",".","P","D","F">>,
      <<"h","t","t","p","s",":","/","/","n",".","i","o","/","a",".","p","d","f","?","x","=","1">>,
      <<"h","t","t","p","s",":","/","/","n",".","i","o","/","a","?","f","=","b",".","p","d","f">>,
      <<"h","t","t","p","s",":","/","/","n",".","i","o","/","a",".","p","d","f","#","t","o","p">>,
      <<"h","t","t","p","s",":","/","/","n",".","i","o","/","a",".","p","d","f",";","v","=","1">>,
      <<"h","t","t","p","s",":","/","/","[","n",".","i","o","/","a">>,
      <<"h","t","t","p","s",":","/","/","n",".","i","o">>,
      <<"h","t","t","p","s",":","/","/","w","w","w",".","t","h","e","v","e","r","g","e",".","c","o","m","/","x">>,
      <<"h","t","t","p","s",":","/","/","n",".","i","o","/","a",".","h","t","m","l">>,
      <<"h","t","t","p","s",":","/","/","n",".","i","o","/","a",".","j","p","e","g","/">>,
      <<"h","t","t","p","s",":","/","/","u","s","e","r","@","j","d",".","c","o","m",":","8","0","8","0","/","x">> }

\* The mutant of is_url_blacklisted: the path is not lower-cased.
is_url_blacklisted_NoLower(url) ==
    IF url = <<>> \/ ~HasScheme(url) THEN TRUE
    ELSE LET parsed_url == urlparse(url)
         IN  IF parsed_url.raised THEN TRUE
             ELSE IF \E blacklisted_domain \in DOMAIN_BLACKLIST :
                         Contains(parsed_url.netloc, blacklisted_domain) THEN TRUE
             ELSE IF \E ext \in EXTENSION_BLACKLIST : EndsWith(parsed_url.path, ext) THEN TRUE
             ELSE FALSE

is_url_blacklisted(url) ==
    IF url = <<>> \/ ~HasScheme(url) THEN TRUE
    ELSE LET parsed_url == urlparse(url)
             domain == parsed_url.netloc
             path == Lower(parsed_url.path)
         IN  IF parsed_url.raised THEN TRUE
             ELSE IF \E blacklisted_domain \in DOMAIN_BLACKLIST :
                         Contains(domain, blacklisted_domain) THEN TRUE
             ELSE IF \E ext \in EXTENSION_BLACKLIST : EndsWith(path, ext) THEN TRUE
             ELSE FALSE

-----------------------------------------------------------------------------
(* The links the search responses of the model carry, and their text.      *)

Links == {"a", "b", "x"}

\* a: https://n.io/a    b: http://n.io/b    x: https://m.youtube.com/v
UrlText(link) ==
    CASE link = "a" -> <<"h","t","t","p","s",":","/","/","n",".","i","o","/","a">>
      [] link = "b" -> <<"h","t","t","p",":","/","/","n",".","i","o","/","b">>
      [] link = "x" -> <<"h","t","t","p","s",":","/","/","m",".","y","o","u","t","u","b","e",".","c","o","m","/","v">>
      [] OTHER -> <<>>

\* is_url_blacklisted on each link of the model, computed once.
Blacklisted == [link \in Links |-> is_url_blacklisted(UrlText(link))]

-----------------------------------------------------------------------------
(* NewsArticle and the articles table (DatabaseManager).                   *)

\* A JSON / Python value that is an int, and one that is a str.
IntVal(n) == [t |-> "int", n |-> n]
StrVal == [t |-> "str", n |-> 0]

\* NewsArticle, and the column list of INSERT INTO articles: a row is the
\* article, its id is its position in the table.
NewsArticle(title, url, source, publish_date, author, sub_category, category, summary, keywords, value_score, value_reason) ==
    [title |-> title, url |-> url, source |-> source,
     publish_date |-> publish_date, author |-> author,
     sub_category |-> sub_category, category |-> category,
     summary |-> summary, keywords |-> keywords,
     value_score |-> value_score, value_reason |-> value_reason]

UrlsOf(rows) == {rows[i].url : i \in 1..Len(rows)}

get_existing_urls(rows) == UrlsOf(rows)

\* The mutant of IntegrityError: a table without the UNIQUE constraint on url.
IntegrityError_NoUnique(rows, article) ==
    \/ article.title = None
    \/ article.url = None

\* sqlite3.IntegrityError on INSERT: url UNIQUE NOT NULL, title NOT NULL.
IntegrityError(rows, article) ==
    \/ article.title = None
    \/ article.url = None
    \/ article.url \in UrlsOf(rows)

\* The mutant of execute_insert: INSERT OR REPLACE, the row of a stored url is
\* overwritten by the new article.
execute_insert_Replace(rows, article) ==
    IF article.title = None \/ article.url = None
    THEN [raised |-> TRUE, rows |-> rows]
    ELSE IF article.url \in UrlsOf(rows)
    THEN [raised |-> FALSE,
          rows |-> [i \in 1..Len(rows) |->
                       IF rows[i].url = article.url THEN article ELSE rows[i]]]
    ELSE [raised |-> FALSE, rows |-> Append(rows, article)]

\* conn.execute('INSERT INTO articles ...'): raises IntegrityError and leaves
\* the table alone, or appends the row.
execute_insert(rows, article) ==
    IF IntegrityError(rows, article)
    THEN [raised |-> TRUE, rows |-> rows]
    ELSE [raised |-> FALSE, rows |-> Append(rows, article)]

\* The for loop of save_articles: an IntegrityError is logged and the loop
\* goes on; saved_count counts the inserts that did not raise.
RECURSIVE insert_loop(_, _, _)
insert_loop(rows, arts, saved_count_) ==
    IF arts = <<>> THEN [rows |-> rows, saved_count |-> saved_count_, raised |-> FALSE]
    ELSE LET done == execute_insert(rows, Head(arts))
         IN  IF done.raised
             THEN insert_loop(rows, Tail(arts), saved_count_)
             ELSE insert_loop(done.rows, Tail(arts), saved_count_ + 1)

\* The mutant of save_articles: no try/except around the INSERT, the first
\* IntegrityError leaves save_articles before conn.commit().
RECURSIVE insert_loop_NoExcept(_, _, _, _)
insert_loop_NoExcept(rows0, rows, arts, saved_count_) ==
    IF arts = <<>> THEN [rows |-> rows, saved_count |-> saved_count_, raised |-> FALSE]
    ELSE LET done == execute_insert(rows, Head(arts))
         IN  IF done.raised
             THEN [rows |-> rows0, saved_count |-> 0, raised |-> TRUE]
             ELSE insert_loop_NoExcept(rows0, done.rows, Tail(arts), saved_count_ + 1)

save_articles_NoExcept(rows, arts) ==
    IF arts = <<>> THEN [rows |-> rows, saved_count |-> 0, raised |-> FALSE]
    ELSE insert_loop_NoExcept(rows, rows, arts, 0)

\* save_articles: 0 for an empty list, else the loop and one commit.
save_articles(rows, arts) ==
    IF arts = <<>> THEN [rows |-> rows, saved_count |-> 0, raised |-> FALSE]
    ELSE insert_loop(rows, arts, 0)

-----------------------------------------------------------------------------
(* The tables a run can start from: rows written by earlier runs, one per  *)
(* url.                                                                    *)

OldRow(link) ==
    NewsArticle("Old", link, "n.io", UNKNOWN_DATE, UNKNOWN, INDUSTRY_NEWS,
                OTHER_CATEGORY, "s", <<"k">>, IntVal(5), "r")

InitStores == { <<>>, <<OldRow("a")>> }

\* SaveSpec starts from these as well.
MoreStores ==
    InitStores \cup { <<OldRow("b")>>, <<OldRow("a"), OldRow("b")>>,
                      <<OldRow("b"), OldRow("a")>> }

-----------------------------------------------------------------------------
(* The search tasks and the search client.                                 *)

Tasks == 1..NumTasks

\* The sub_category generate_search_tasks gives a task: the category of its
\* search target, or the fixed one of a targeted-source task (the last task).
SubCategoryOf(t) == IF t = NumTasks THEN INDUSTRY_NEWS ELSE "hair dryer"

RECURSIVE SeqsUpTo(_, _)
SeqsUpTo(S, n) ==
    IF n = 0 THEN {<<>>}
    ELSE LET shorter == SeqsUpTo(S, n - 1)
         IN  shorter \cup {Append(q, x) : q \in {r \in shorter : Len(r) = n - 1}, x \in S}

\* What the HTTP call of GoogleSearchClient.search can end in: "error", a
\* RequestException (transport, timeout, error status); "not_object", a body
\* that is JSON but no object (an array, a string); "ok", a body whose 'items'
\* are given by their links (None: an item without 'link').
SearchResponses ==
    {[kind |-> "error", items |-> <<>>], [kind |-> "not_object", items |-> <<>>]}
        \cup {[kind |-> "ok", items |-> q] : q \in SeqsUpTo(Links \cup {None}, MaxResults)}

\* search: [] for a RequestException, the items of the body; .get on a body
\* that is no dict raises AttributeError, which the except clause does not name.
search(response) ==
    IF response.kind = "error" THEN [raised |-> FALSE, items |-> <<>>]
    ELSE IF response.kind = "not_object" THEN [raised |-> TRUE, items |-> <<>>]
    ELSE [raised |-> FALSE, items |-> response.items]

-----------------------------------------------------------------------------
(* The rest of a search item, read by process_single_article.              *)

MissingVal == [t |-> "missing", n |-> 0]

PUBLISHED == <<"2","0","2","4","-","0","1","-","0","2","T","0","3",":","0","4">>
FETCHED_DAY == <<"2","0","2","4","-","0","5","-","0","6">>

\* title: the 'title' or Missing; pagemap / metatags: whether the key is
\* there; tags: the metatags list, each a dict of published_time and author
\* (<<>> and Missing for an absent key).
ItemShapes ==
    { [title |-> "T", displayLink |-> "n.io", pagemap |-> TRUE, metatags |-> TRUE,
       tags |-> <<[published_time |-> PUBLISHED, author |-> "Ann"]>>],
      [title |-> "T", displayLink |-> "n.io", pagemap |-> TRUE, metatags |-> TRUE,
       tags |-> <<>>],
      [title |-> Missing, displayLink |-> "n.io", pagemap |-> FALSE, metatags |-> FALSE,
       tags |-> <<>>] }

\* Every shape of the pagemap of an item: the key is missing, its metatags
\* are missing, an empty list, or a list whose first dict has both tags,
\* one of them or none.
AllItemShapes ==
    { [title |-> "T", displayLink |-> "n.io", pagemap |-> FALSE, metatags |-> FALSE,
       tags |-> <<>>],
      [title |-> "T", displayLink |-> "n.io", pagemap |-> TRUE, metatags |-> FALSE,
       tags |-> <<>>] }
        \cup {[title |-> "T", displayLink |-> "n.io", pagemap |-> TRUE, metatags |-> TRUE,
               tags |-> tags] :
                 tags \in SeqsUpTo([published_time : {<<>>, PUBLISHED},
                                    author : {Missing, "Ann"}], 1)}

\* dict.get(key, default) on a value that is Missing when the key is absent.
Get(value, default) == IF value = Missing THEN default ELSE value

\* extract_metadata: pagemap.get('metatags', [{}])[0] raises IndexError on an
\* empty list.
extract_metadata(item) ==
    LET metatags == IF item.pagemap /\ item.metatags THEN item.tags
                    ELSE <<[published_time |-> <<>>, author |-> Missing]>>
    IN  IF metatags = <<>>
        THEN [raised |-> TRUE, publish_date |-> UNKNOWN_DATE, author |-> UNKNOWN]
        ELSE [raised |-> FALSE,
              publish_date |-> IF metatags[1].published_time = <<>> THEN UNKNOWN_DATE
                               ELSE metatags[1].published_time,
              author |-> Get(metatags[1].author, UNKNOWN)]

\* publish_date.split('T')[0]
SplitT(s) == SubSeq(s, 1, FindAny(s, {"T"}, 1) - 1)

-----------------------------------------------------------------------------
(* fetch_article.                                                          *)

\* One download-and-parse attempt.  raised: download() or parse() raised;
\* text_len: len(article.text); has_date: article.publish_date is a datetime.
\* Empty: the page was downloaded and parsed, and no text was extracted.
Failing == [raised |-> TRUE, text_len |-> 0, has_date |-> FALSE]
Empty == [raised |-> FALSE, text_len |-> 0, has_date |-> FALSE]
Stub == [raised |-> FALSE, text_len |-> MIN_TEXT_LEN - 1, has_date |-> FALSE]
Page == [raised |-> FALSE, text_len |-> MIN_TEXT_LEN, has_date |-> TRUE]

\* What the attempts of one call would end in, in order, were they all made.
FetchScripts ==
    { <<Page, Failing, Failing>>, <<Failing, Page, Stub>>, <<Failing, Failing, Page>>,
      <<Failing, Failing, Failing>>, <<Stub, Page, Page>>, <<Empty, Page, Page>> }

\* The mutant of fetch_loop: time.sleep after every failed attempt.
RECURSIVE fetch_loop_SleepAlways(_, _, _)
fetch_loop_SleepAlways(script, attempt, sleeps) ==
    IF attempt >= RETRY_COUNT
    THEN [found |-> FALSE, article |-> Failing, attempts |-> attempt, sleeps |-> sleeps]
    ELSE IF ~script[attempt + 1].raised
    THEN [found |-> TRUE, article |-> script[attempt + 1], attempts |-> attempt + 1,
          sleeps |-> sleeps]
    ELSE fetch_loop_SleepAlways(script, attempt + 1, sleeps + 1)

\* The loop of fetch_article from attempt number `attempt' (0-based): the
\* first attempt that does not raise is returned, a raising one is followed by
\* a sleep unless it is the last.  found: an Article is returned (else None).
RECURSIVE fetch_loop(_, _, _)
fetch_loop(script, attempt, sleeps) ==
    IF attempt >= RETRY_COUNT
    THEN [found |-> FALSE, article |-> Failing, attempts |-> attempt, sleeps |-> sleeps]
    ELSE IF ~script[attempt + 1].raised
    THEN [found |-> TRUE, article |-> script[attempt + 1], attempts |-> attempt + 1,
          sleeps |-> sleeps]
    ELSE fetch_loop(script, attempt + 1,
                    IF attempt < RETRY_COUNT - 1 THEN sleeps + 1 ELSE sleeps)

fetch_article(script) == fetch_loop(script, 0, 0)

\* Every way the RETRY_COUNT attempts of a call can go.
AllFetchScripts == [1..RETRY_COUNT -> {Failing, Empty, Stub, Page}]

\* What fetch_article gave, as last records it.
FetchedAs(fetched) ==
    IF ~fetched.found THEN "failed"
    ELSE IF fetched.article.text_len < MIN_TEXT_LEN THEN "short"
    ELSE "ok"

\* The mutant of Unusable: the None of fetch_article is not looked at.
Unusable_NoneAccepted(fetched) ==
    fetched.found /\ fetched.article.text_len < MIN_TEXT_LEN

\* The mutant of Unusable: a text of exactly the minimum length is refused.
Unusable_OffByOne(fetched) ==
    \/ ~fetched.found
    \/ fetched.article.text_len = 0
    \/ fetched.article.text_len <= MIN_TEXT_LEN

\* Line 392: not article or not article.text or len(article.text) < 200.
Unusable(fetched) ==
    \/ ~fetched.found
    \/ fetched.article.text_len = 0
    \/ fetched.article.text_len < MIN_TEXT_LEN

\* Lines 396-402: the date of the item, else the date of the page, else unknown.
PublishDate(publish_date, has_date) ==
    IF publish_date # <<>> /\ publish_date # UNKNOWN_DATE THEN SplitT(publish_date)
    ELSE IF has_date THEN FETCHED_DAY
    ELSE UNKNOWN_DATE

-----------------------------------------------------------------------------
(* DeepSeekClient: _make_request, _parse_json_response and the two calls.  *)

\* A value json.loads can return: kind is "object", "array" or "null"; an
\* object carries the keys the callers read (Missing, MissingVal, and <<>> for
\* keywords: no such key); empty: the value is falsy ({} or []).
JsonObject(category, summary, keywords, score, reason) ==
    [kind |-> "object",
     empty |-> category = Missing /\ summary = Missing /\ keywords = <<>>
               /\ score = MissingVal /\ reason = Missing,
     category |-> category, summary |-> summary, keywords |-> keywords,
     score |-> score, reason |-> reason]

JsonArray ==
    [kind |-> "array", empty |-> FALSE, category |-> Missing, summary |-> Missing,
     keywords |-> <<>>, score |-> MissingVal, reason |-> Missing]

\* Python's None as the result of a call that returns Optional[Dict].
NoneDict ==
    [kind |-> "null", empty |-> TRUE, category |-> Missing, summary |-> Missing,
     keywords |-> <<>>, score |-> MissingVal, reason |-> Missing]

\* An exception that left the call, where an Optional[Dict] was to be returned.
RaisedDict ==
    [kind |-> "exception", empty |-> FALSE, category |-> Missing, summary |-> Missing,
     keywords |-> <<>>, score |-> MissingVal, reason |-> Missing]

\* What the POST of _make_request can end in.  http: "error" (a
\* RequestException: transport, timeout, error status), "no_content" (the body
\* lacks choices[0].message.content: KeyError or IndexError), "not_dict" (the
\* body, or what it holds on the way to the content, is a JSON array or null:
\* TypeError, which no except clause names) or "ok"; text:
\* the content is "empty", "invalid" (not JSON), "json" (a JSON text),
\* "fenced" (a JSON text between the markdown fence and its closing fence) or
\* "fenced_open" (the fence, the JSON text, no closing fence); value: what
\* json.loads makes of the JSON text.
LlmResponse(http, text, value) == [http |-> http, text |-> text, value |-> value]

\* _make_request: the content, or None (text "none"), or the exception that
\* is not caught (text "raised").
make_request(response) ==
    IF response.http = "ok" THEN [text |-> response.text, value |-> response.value]
    ELSE IF response.http = "not_dict" THEN [text |-> "raised", value |-> RaisedDict]
    ELSE [text |-> "none", value |-> NoneDict]

\* _parse_json_response: None for no content; content.strip()[7:-3] after the
\* opening fence, which cuts the closing fence or, without one, the end of the
\* JSON text; json.loads; None on JSONDecodeError.
parse_json_response(content) ==
    IF content.text \in {"none", "empty"} THEN NoneDict
    ELSE IF content.text \in {"invalid", "fenced_open"} THEN NoneDict
    ELSE content.value

\* Lines 330-331 and 350-351: the content of the request is parsed; an
\* exception of _make_request leaves the call.
analyze_article(response) ==
    LET content == make_request(response)
    IN  IF content.text = "raised" THEN RaisedDict ELSE parse_json_response(content)

evaluate_value(response) ==
    LET content == make_request(response)
    IN  IF content.text = "raised" THEN RaisedDict ELSE parse_json_response(content)

\* Every kind of answer the text-generation service can give to a prompt.
JsonValues ==
    { JsonObject("tech", "s", <<"k1", "k2">>, MissingVal, Missing),
      JsonObject(UNRELATED, "s", <<"k1", "k2">>, MissingVal, Missing),
      JsonObject(Missing, Missing, <<>>, IntVal(50), "r"),
      JsonObject(Missing, Missing, <<>>, MissingVal, Missing),
      JsonArray,
      NoneDict }

AllLlmResponses ==
    {LlmResponse(http, "none", NoneDict) : http \in {"error", "no_content", "not_dict"}}
        \cup {LlmResponse("ok", text, NoneDict) : text \in {"empty", "invalid"}}
        \cup {LlmResponse("ok", text, value) :
                 text \in {"json", "fenced", "fenced_open"}, value \in JsonValues}

\* The answers of the text-generation service to the classification prompt.
AnalysisResponses ==
    { LlmResponse("error", "none", NoneDict),
      LlmResponse("ok", "fenced", JsonObject(UNRELATED, "s", <<"k1", "k2">>, MissingVal, Missing)),
      LlmResponse("ok", "json", JsonObject("tech", "s", <<"k1", "k2">>, MissingVal, Missing)),
      LlmResponse("ok", "json", JsonArray) }

\* The answers of the text-generation service to the scoring prompt.
EvaluationResponses ==
    { LlmResponse("error", "none", NoneDict),
      LlmResponse("ok", "json", JsonArray),
      LlmResponse("ok", "fenced", JsonObject(Missing, Missing, <<>>, IntVal(50), "r")),
      LlmResponse("ok", "json", JsonObject(Missing, Missing, <<>>, IntVal(150), "r")),
      LlmResponse("ok", "json", JsonObject(Missing, Missing, <<>>, StrVal, "r")) }

\* ", ".join(keywords)
RECURSIVE JoinComma(_)
JoinComma(keywords) ==
    IF Len(keywords) <= 1 THEN keywords
    ELSE <<Head(keywords), ", ">> \o JoinComma(Tail(keywords))

\* `not x' for an Optional[Dict]: None, {} and [] are falsy.
Falsy(value) == value.kind = "null" \/ value.empty

\* The mutant of Filtered: the sentinel category is not looked at.
Filtered_NoSentinel(analysis) == Falsy(analysis)

\* Line 405: not analysis or analysis.get('category') == UNRELATED.
Filtered(analysis) == Falsy(analysis) \/ analysis.category = UNRELATED

\* Line 411: the score and the reason of the evaluation, each with its
\* default, or both defaults for a falsy evaluation.
ScoreOf(evaluation) ==
    IF Falsy(evaluation) THEN IntVal(0)
    ELSE IF evaluation.score = MissingVal THEN IntVal(0) ELSE evaluation.score

ReasonOf(evaluation) ==
    IF Falsy(evaluation) THEN EVAL_FAILED ELSE Get(evaluation.reason, EVAL_FAILED)

\* Lines 404-418 of process_single_article, after a fetch that passed line
\* 392.  result: "none" (return None), "raised" (.get on a value that is
\* no dict: AttributeError) or "article"; scored: evaluate_value was called.
enrich(c, sub_category, analysis, evaluation) ==
    IF Filtered(analysis)
    THEN [result |-> "none", scored |-> FALSE, article |-> OldRow(c.url)]
    ELSE IF analysis.kind # "object"
    THEN [result |-> "raised", scored |-> FALSE, article |-> OldRow(c.url)]
    ELSE IF ~Falsy(evaluation) /\ evaluation.kind # "object"
    THEN [result |-> "raised", scored |-> TRUE, article |-> OldRow(c.url)]
    ELSE [result |-> "article", scored |-> TRUE,
          article |-> NewsArticle(c.title, c.url, c.source, c.publish_date, c.author,
                                  sub_category, Get(analysis.category, OTHER_CATEGORY),
                                  Get(analysis.summary, ""), JoinComma(analysis.keywords),
                                  ScoreOf(evaluation), ReasonOf(evaluation))]

-----------------------------------------------------------------------------
(* The state after NewsScraper.__init__ and the start of run().            *)

\* A call of process_single_article: the task that made it, its url, the
\* stages it went through in order, what fetch_article gave ("failed": None,
\* "short": an unusable text, "ok"), what analyze_article and evaluate_value returned, and the result
\* ("none": None, "article", "raised"); "" for what has not happened.
Call(task, url, stages, fetched, analysis, evaluation, result) ==
    [task |-> task, url |-> url, stages |-> stages, fetched |-> fetched, analysis |-> analysis,
     evaluation |-> evaluation, result |-> result]

NoCall == Call(0, None, <<>>, "", "", "", "")

Idle ==
    /\ pc = [t \in Tasks |-> "queued"]
    /\ search_results = [t \in Tasks |-> <<>>]
    /\ idx = [t \in Tasks |-> 0]
    /\ last = NoCall
    /\ articles = [t \in Tasks |-> <<>>]
    /\ all_articles = <<>>
    /\ collected = {}
    /\ saved_batch = <<>>
    /\ saved_count = 0
    /\ passed = {}

Init ==
    /\ store \in InitStores
    /\ loaded = get_existing_urls(store)
    /\ existing_urls = loaded
    /\ Idle
    /\ mainpc = "collect"
    /\ NoSave
    /\ NoCalls
    /\ NoTxn
    /\ NoDash

-----------------------------------------------------------------------------
(* process_search_task, run by a pool worker.                              *)

Running == {t \in Tasks : pc[t] \notin {"queued", "returned", "raised"}}

\* The for loop goes to the next item, or the task returns its articles.
Advance(t) ==
    /\ idx' = [idx EXCEPT ![t] = idx[t] + 1]
    /\ pc' = [pc EXCEPT ![t] = IF idx[t] + 1 > Len(search_results[t])
                               THEN "returned" ELSE "test"]

\* An exception leaves process_search_task: the future holds it, the list
\* the task was building is never returned.
Raise(t) ==
    /\ pc' = [pc EXCEPT ![t] = "raised"]
    /\ UNCHANGED idx

RECURSIVE SumLen(_, _)
SumLen(f, S) ==
    IF S = {} THEN 0
    ELSE LET t == CHOOSE x \in S : TRUE IN Len(f[t]) + SumLen(f, S \ {t})

ItemsSoFar == SumLen(search_results, Tasks)

\* Lines 440-443: a free worker takes the task and searches.
Search(t) ==
    /\ mainpc = "collect"
    /\ pc[t] = "queued"
    /\ Cardinality(Running) < MAX_WORKERS
    /\ \E response \in SearchResponses :
          LET found == search(response)
          IN  /\ ItemsSoFar + Len(found.items) <= MaxItems
              /\ search_results' = [search_results EXCEPT ![t] = found.items]
              /\ IF found.raised
                 THEN Raise(t)
                 ELSE /\ idx' = [idx EXCEPT ![t] = 1]
                      /\ pc' = [pc EXCEPT ![t] = IF found.items = <<>> THEN "returned"
                                                 ELSE "test"]
    /\ UNCHANGED <<store, loaded, existing_urls, last, articles, all_articles,
                   collected, mainpc, saved_batch, saved_count, passed>>
    /\ UNCHANGED <<save_vars, call_vars, txn, dash>>

\* The mutant of IsNewUrl: the dedup set is not consulted.
IsNewUrl_NoDedup(url, known) == url # None

\* Line 448: url and url not in self.existing_urls.
IsNewUrl(url, known) == url # None /\ url \notin known

\* Lines 447-448: the membership test on the shared set.
TestUrl(t) ==
    /\ pc[t] = "test"
    /\ LET url == search_results[t][idx[t]]
       IN  IF IsNewUrl(url, existing_urls)
           THEN /\ pc' = [pc EXCEPT ![t] = "add"]
                /\ passed' = passed \cup {<<t, url>>}
                /\ UNCHANGED idx
           ELSE /\ Advance(t)
                /\ UNCHANGED passed
    /\ UNCHANGED <<store, loaded, existing_urls, search_results, last, articles,
                   all_articles, collected, mainpc, saved_batch, saved_count>>
    /\ UNCHANGED <<save_vars, call_vars, txn, dash>>

\* The mutant of set_add: the url is not added.
set_add_Skipped(known, url) == known

\* set.add of line 449.
set_add(known, url) == known \cup {url}

\* Line 449: the add, a step of its own; process_single_article starts.
AddUrl(t) ==
    /\ pc[t] = "add"
    /\ existing_urls' = set_add(existing_urls, search_results[t][idx[t]])
    /\ pc' = [pc EXCEPT ![t] = "process"]
    /\ UNCHANGED last
    /\ UNCHANGED <<store, loaded, search_results, idx, articles, all_articles,
                   collected, mainpc, saved_batch, saved_count, passed>>
    /\ UNCHANGED <<save_vars, call_vars, txn, dash>>

\* What an enrichment call returned, as last records it.
Returned(value) ==
    IF value.kind = "null" THEN "null"
    ELSE IF value.kind # "object" THEN "no_object"
    ELSE IF value.category = UNRELATED THEN "unrelated"
    ELSE "object"

\* The mutant of Finish: the article is put at the head of the list.
Finish_Prepend(t, call, article) ==
    /\ last' = call
    /\ IF call.result = "raised" THEN Raise(t) ELSE Advance(t)
    /\ articles' = [articles EXCEPT ![t] =
                      IF call.result = "article" THEN <<article>> \o articles[t]
                      ELSE articles[t]]

\* Lines 450-453: the call of process_single_article ended: an exception
\* leaves the task, an article is appended, the loop goes on.
Finish(t, call, article) ==
    /\ last' = call
    /\ IF call.result = "raised" THEN Raise(t) ELSE Advance(t)
    /\ articles' = [articles EXCEPT ![t] =
                      IF call.result = "article" THEN Append(articles[t], article)
                      ELSE articles[t]]

\* Lines 404-418 of process_single_article for the candidate c whose page was
\* fetched, with what the service answers.
Enrichment(t, c, stages, got) ==
    \E aresp \in AnalysisResponses :
        LET analysis == analyze_article(aresp)
            early == enrich(c, SubCategoryOf(t), analysis, NoneDict)
        IN  IF ~early.scored
            THEN Finish(t, Call(t, c.url, stages \o <<"analyze">>, got, Returned(analysis),
                                "", early.result),
                        early.article)
            ELSE \E eresp \in EvaluationResponses :
                    LET evaluation == evaluate_value(eresp)
                        out == enrich(c, SubCategoryOf(t), analysis, evaluation)
                    IN  Finish(t, Call(t, c.url, stages \o <<"analyze", "evaluate">>, got,
                                       Returned(analysis), Returned(evaluation), out.result),
                               out.article)

\* Lines 391-402: fetch_article, the length check, the publish date.
Fetching(t, c, stages) ==
    \E script \in FetchScripts :
        LET fetched == fetch_article(script)
        IN  IF Unusable(fetched)
            THEN Finish(t, Call(t, c.url, stages \o <<"fetch">>, FetchedAs(fetched),
                                "", "", "none"),
                        OldRow(c.url))
            ELSE Enrichment(t, [c EXCEPT !.publish_date =
                                   PublishDate(c.publish_date, fetched.article.has_date)],
                            stages \o <<"fetch">>, FetchedAs(fetched))

\* process_single_article (lines 382-418), a call local to its worker: the
\* blacklist filter, the title, display link and metadata of the item, the
\* fetch, the two enrichment calls.
ProcessSingleArticle(t) ==
    /\ pc[t] = "process"
    /\ LET url == search_results[t][idx[t]]
       IN  IF Blacklisted[url]
           THEN Finish(t, Call(t, url, <<"filter">>, "", "", "", "none"), OldRow(url))
           ELSE \E item \in ItemShapes :
                   LET meta == extract_metadata(item)
                   IN  IF meta.raised
                       THEN Finish(t, Call(t, url, <<"filter", "metadata">>, "", "", "", "raised"),
                                   OldRow(url))
                       ELSE Fetching(t, [url |-> url, title |-> Get(item.title, ""),
                                         source |-> Get(item.displayLink, ""),
                                         publish_date |-> meta.publish_date,
                                         author |-> meta.author],
                                     <<"filter", "metadata">>)
    /\ UNCHANGED <<store, loaded, existing_urls, search_results, all_articles,
                   collected, mainpc, saved_batch, saved_count, passed>>
    /\ UNCHANGED <<save_vars, call_vars, txn, dash>>

-----------------------------------------------------------------------------
(* run(), the main thread.                                                 *)

\* The mutant of future_result: no try/except around future.result(), the
\* exception of a task leaves run().
future_result_NoExcept(all, status, arts) ==
    [all_articles |-> IF status = "returned" THEN all \o arts ELSE all,
     aborted |-> status = "raised"]

\* The mutant of future_result: the articles a task had built when it raised
\* are added as well.
future_result_KeepPartial(all, status, arts) ==
    [all_articles |-> all \o arts, aborted |-> FALSE]

\* Lines 468-474: the articles of a task that returned are added, the
\* exception of a task that raised is logged.
future_result(all, status, arts) ==
    [all_articles |-> IF status = "returned" THEN all \o arts ELSE all,
     aborted |-> FALSE]

\* Lines 466-475: as_completed yields a finished future.
Collect(t) ==
    /\ mainpc = "collect"
    /\ pc[t] \in {"returned", "raised"}
    /\ t \notin collected
    /\ LET got == future_result(all_articles, pc[t], articles[t])
       IN  /\ all_articles' = got.all_articles
           /\ mainpc' = IF got.aborted THEN "crashed" ELSE "collect"
    /\ collected' = collected \cup {t}
    /\ UNCHANGED <<store, loaded, existing_urls, pc, search_results, idx, last,
                   articles, saved_batch, saved_count, passed>>
    /\ UNCHANGED <<save_vars, call_vars, txn, dash>>

\* Line 481: a.value_score >= 70 raises TypeError for a score that is no number.
ReportRaises(all) == \E i \in 1..Len(all) : all[i].value_score.t # "int"

\* The mutant of PoolJoined: the batch is saved when the first future is in.
PoolJoined_First == collected # {}

\* Lines 463-475: as_completed has yielded every future and the with block
\* of the executor is left, which waits for the workers.
PoolJoined == collected = Tasks

\* Lines 477-488, after the pool has joined: one save_articles call for a
\* non-empty batch, then the report of the high-value articles.
SaveAndReport ==
    /\ mainpc = "collect"
    /\ PoolJoined
    /\ IF all_articles # <<>>
       THEN LET saved == save_articles(store, all_articles)
            IN  /\ store' = saved.rows
                /\ saved_batch' = all_articles
                /\ saved_count' = saved.saved_count
                /\ mainpc' = IF saved.raised \/ ReportRaises(all_articles)
                             THEN "crashed" ELSE "done"
       ELSE /\ mainpc' = "done"
            /\ UNCHANGED <<store, saved_batch, saved_count>>
    /\ UNCHANGED <<loaded, existing_urls, pc, search_results, idx, last, articles,
                   all_articles, collected, passed>>
    /\ UNCHANGED <<save_vars, call_vars, txn, dash>>

Next ==
    \/ \E t \in Tasks : Search(t)
    \/ \E t \in Tasks : TestUrl(t)
    \/ \E t \in Tasks : AddUrl(t)
    \/ \E t \in Tasks : ProcessSingleArticle(t)
    \/ \E t \in Tasks : Collect(t)
    \/ SaveAndReport

Spec == Init /\ [][Next]_vars

-----------------------------------------------------------------------------
(* save_articles on its own: any list of articles, given to save_articles  *)
(* again and again, on any starting table.                                 *)

SvArticle(link, n) ==
    NewsArticle("T", link, "n.io", UNKNOWN_DATE, "Ann", INDUSTRY_NEWS, "tech",
                "s", <<"k1">>, IntVal(n), "r")

SvArticles == {SvArticle(link, n) : link \in {"a", "b"}, n \in {10, 80}}

SaveInit ==
    /\ store \in MoreStores
    /\ sv_batch \in SeqsUpTo(SvArticles, MaxBatch)
    /\ sv_snaps = <<store>>
    /\ sv_rets = <<>>
    /\ loaded = {}
    /\ existing_urls = {}
    /\ Idle
    /\ mainpc = "idle"
    /\ NoCalls
    /\ NoTxn
    /\ NoDash

SaveCall ==
    /\ Len(sv_rets) < MaxSaveCalls
    /\ LET saved == save_articles(store, sv_batch)
       IN  /\ store' = saved.rows
           /\ sv_snaps' = Append(sv_snaps, saved.rows)
           /\ sv_rets' = Append(sv_rets, [raised |-> saved.raised,
                                          saved_count |-> saved.saved_count])
    /\ UNCHANGED sv_batch
    /\ UNCHANGED <<pipeline_vars, call_vars, txn, dash>>

SaveNext == SaveCall

SaveSpec == SaveInit /\ [][SaveNext]_vars

-----------------------------------------------------------------------------
(* Properties.                                                             *)

Range(s) == {s[i] : i \in 1..Len(s)}

Terminated == mainpc \in {"done", "crashed"}

\* The rows the run wrote: the table starts with one row per loaded URL.
NewRows == SubSeq(store, Cardinality(loaded) + 1, Len(store))

RowsFor(rows, url) == {i \in 1..Len(rows) : rows[i].url = url}

\* The tasks whose membership test let the URL through.
Claimants(url) == {t \in Tasks : <<t, url>> \in passed}

\* C1: the membership test on existing_urls and the insertion that follows
\* it are one indivisible step, so that of the workers that meet the same
\* unseen URL at most one gets through the test.
C1_AtMostOneClaimant == \A url \in Links : Cardinality(Claimants(url)) <= 1

InRange(value_score) ==
    /\ value_score.t = "int"
    /\ value_score.n >= SCORE_MIN
    /\ value_score.n <= SCORE_MAX

\* The URL is in the results of two tasks and was not known when the run began.
SharedNewUrl(url) ==
    /\ url \notin loaded
    /\ Cardinality({t \in Tasks : url \in Range(search_results[t])}) >= 2

\* Every worker that processed the URL got a usable page, a related analysis
\* and an evaluation, and so built an article for it.
AcceptedByAll(url) ==
    /\ Claimants(url) # {}
    /\ \A t \in Claimants(url) :
          \E i \in 1..Len(articles[t]) :
              /\ articles[t][i].url = url
              /\ articles[t][i].value_reason # EVAL_FAILED
              /\ InRange(articles[t][i].value_score)

\* C2: when run() has finished, a URL that two tasks discovered for the
\* first time, and whose fetch and service calls all succeeded, has exactly
\* one row in the store.
C2_ExactlyOneRow ==
    mainpc = "done" =>
        \A url \in Links :
            SharedNewUrl(url) /\ AcceptedByAll(url)
                => Cardinality(RowsFor(store, url)) = 1

UniqueUrls == \A i, j \in 1..Len(store) : store[i].url = store[j].url => i = j

RowsKept ==
    /\ Len(store') >= Len(store)
    /\ \A i \in 1..Len(store) : store'[i] = store[i]

\* C3: no two rows of the store ever have the same url, and an insert of an
\* article whose url is stored leaves the stored row as it was: every step
\* keeps every row.
C3_UniqueUrlRowsKept == []UniqueUrls /\ [][RowsKept]_vars

\* A call has met an article whose url was stored with other column values.
C3_Witness ==
    /\ Len(sv_rets) >= 1
    /\ \E i \in 1..Len(sv_batch) : \E j \in 1..Len(sv_snaps[1]) :
          /\ sv_batch[i].url = sv_snaps[1][j].url
          /\ sv_batch[i] # sv_snaps[1][j]
          /\ store[j] = sv_snaps[1][j]

\* C4: save_articles is idempotent: every further call with the same list
\* leaves the rows of the first call and returns 0.
C4_SecondCallNoOp ==
    \A k \in 2..Len(sv_rets) :
        /\ sv_snaps[k + 1] = sv_snaps[2]
        /\ ~sv_rets[k].raised
        /\ sv_rets[k].saved_count = 0

\* The first call inserted rows and the same list was saved again.
C4_Witness ==
    /\ Len(sv_rets) >= 2
    /\ sv_rets[1].saved_count > 0
    /\ sv_snaps[3] = sv_snaps[2]

\* The positions of the list whose url is not stored and not earlier in the list.
NewPositions(rows, arts) ==
    {i \in 1..Len(arts) :
        /\ arts[i].url \notin UrlsOf(rows)
        /\ \A j \in 1..(i - 1) : arts[j].url # arts[i].url}

\* C5: a call of save_articles on a list that holds duplicates raises
\* nothing, inserts every article whose url is new wherever the duplicates
\* stand, and returns the number of rows it inserted.
C5_DuplicateSkipped ==
    Len(sv_rets) >= 1 =>
        /\ ~sv_rets[1].raised
        /\ \A i \in NewPositions(sv_snaps[1], sv_batch) :
              \E j \in 1..Len(sv_snaps[2]) : sv_snaps[2][j] = sv_batch[i]
        /\ sv_rets[1].saved_count = Len(sv_snaps[2]) - Len(sv_snaps[1])
        /\ sv_rets[1].saved_count = Cardinality(NewPositions(sv_snaps[1], sv_batch))

\* The list began with a stored url, repeated a url, and a new url came after.
C5_Witness ==
    /\ Len(sv_rets) >= 1
    /\ Len(sv_batch) >= 3
    /\ sv_batch[1].url \in UrlsOf(sv_snaps[1])
    /\ \E i \in NewPositions(sv_snaps[1], sv_batch) :
          /\ i > 1
          /\ \E j \in (i + 1)..Len(sv_batch) : sv_batch[j].url = sv_batch[i].url
    /\ sv_rets[1].saved_count = 1

\* C6: the value_score of every accepted article, in a worker's list, in
\* the batch and in the rows the run wrote, is an integer from 0 to 100.
C6_ScoreInRange ==
    /\ \A t \in Tasks : \A i \in 1..Len(articles[t]) : InRange(articles[t][i].value_score)
    /\ \A i \in 1..Len(all_articles) : InRange(all_articles[i].value_score)
    /\ \A i \in 1..Len(NewRows) : InRange(NewRows[i].value_score)

SeqToBag(s) == [x \in Range(s) |-> Cardinality({i \in 1..Len(s) : s[i] = x})]

RECURSIVE ReturnedArticles(_)
ReturnedArticles(ts) ==
    IF ts = {} THEN EmptyBag
    ELSE LET t == CHOOSE x \in ts : TRUE
         IN  (IF pc[t] = "returned" THEN SeqToBag(articles[t]) ELSE EmptyBag)
                 (+) ReturnedArticles(ts \ {t})

\* C7: an exception in one task aborts neither another task nor the run:
\* run() takes the result of every task, holds exactly the articles of the
\* tasks that returned, and gives all of them to save_articles.
C7_SiblingsCollected ==
    /\ SeqToBag(all_articles) = ReturnedArticles(collected)
    /\ Terminated =>
          /\ collected = Tasks
          /\ \A t \in Tasks : pc[t] \in {"returned", "raised"}
          /\ saved_batch = all_articles

\* A task raised, another returned articles, and the run saved them.
C7_Witness ==
    /\ mainpc = "done"
    /\ \E t \in Tasks : pc[t] = "raised"
    /\ \E t \in Tasks : pc[t] = "returned" /\ articles[t] # <<>>
    /\ saved_batch # <<>>
    /\ saved_count > 0

\* C8: a URL that get_existing_urls loaded never gets through the membership
\* test, so no call of process_single_article (fetch_article and what
\* follows it) is ever made for it.
C8_LoadedNeverProcessed ==
    /\ \A t \in Tasks : \A url \in loaded : <<t, url>> \notin passed
    /\ \A t \in Tasks :
          pc[t] \in {"add", "process"} => search_results[t][idx[t]] \notin loaded
    /\ last.url \notin loaded

\* A task met a loaded URL in its results, went on and fetched another URL.
C8_Witness ==
    \E t \in Tasks :
        /\ pc[t] = "returned"
        /\ \E i \in 1..Len(search_results[t]) : search_results[t][i] \in loaded
        /\ last.task = t
        /\ last.fetched = "ok"

Unrelated(list) == \E i \in 1..Len(list) : list[i].category = UNRELATED

\* C9: a candidate whose analysis carries the unrelated mark never becomes
\* an article: evaluate_value is not called for it, and no worker's list,
\* no batch and no row written by the run has that category.
C9_UnrelatedDropped ==
    /\ last.analysis = "unrelated" =>
          /\ last.evaluation = ""
          /\ last.result = "none"
          /\ \A i \in 1..Len(last.stages) : last.stages[i] # "evaluate"
    /\ \A t \in Tasks : ~Unrelated(articles[t])
    /\ ~Unrelated(all_articles)
    /\ ~Unrelated(saved_batch)
    /\ ~Unrelated(NewRows)

\* A candidate was analysed as unrelated in a run that wrote rows.
C9_Witness ==
    /\ mainpc = "done"
    /\ last.analysis = "unrelated"
    /\ last.result = "none"
    /\ NewRows # <<>>

Unscored(article) ==
    article.value_score = IntVal(0) /\ article.value_reason = EVAL_FAILED

\* C10: a candidate whose analysis is related and whose evaluation is null
\* is accepted with value_score 0 and the reason that tells the evaluation
\* failed, and when run() has finished it is stored with these two values.
C10_UnscoredPersisted ==
    /\ last.analysis = "object" /\ last.evaluation = "null" =>
          /\ last.result = "article"
          /\ articles[last.task] # <<>>
          /\ articles[last.task][Len(articles[last.task])].url = last.url
          /\ Unscored(articles[last.task][Len(articles[last.task])])
    /\ mainpc = "done" =>
          \A t \in Tasks : \A i \in 1..Len(articles[t]) :
              Unscored(articles[t][i]) =>
                  \E j \in 1..Len(store) :
                      store[j].url = articles[t][i].url /\ Unscored(store[j])

\* Every row the run wrote is an article some worker built.
RowsFromArticles ==
    \A i \in 1..Len(NewRows) : \E t \in Tasks : NewRows[i] \in Range(articles[t])

\* The call of process_single_article that ends in this step found every
\* fetch attempt failing.
FailedFetchStep ==
    /\ last' # last
    /\ last'.fetched = "failed"
    => LET t == last'.task
       IN  /\ last'.result = "none"
           /\ last'.stages[Len(last'.stages)] = "fetch"
           /\ articles' = articles
           /\ store' = store
           /\ idx'[t] = idx[t] + 1
           /\ pc'[t] = IF idx[t] < Len(search_results[t]) THEN "test" ELSE "returned"

\* C11: when every fetch attempt for a candidate fails, fetch_article gives
\* None and raises nothing: the call yields no article, nothing is written,
\* the task does not raise and its loop goes on to the next candidate; and
\* a row is only ever written for an article a candidate did yield.
C11_FailedFetchSkipped == []RowsFromArticles /\ [][FailedFetchStep]_vars

\* All the attempts for a candidate failed and its task has a candidate left.
C11_Witness ==
    /\ last.fetched = "failed"
    /\ pc[last.task] = "test"
    /\ idx[last.task] = 2

-----------------------------------------------------------------------------
(* Start-up: AppConfig, NewsScraper.__init__ and the entry point, as the   *)
(* list of what has been done when the constructor returns or raises.      *)

SecretNames == {"GOOGLE_API_KEY", "SEARCH_ENGINE_ID", "DEEPSEEK_API_KEY"}

\* os.getenv gives None for a variable that is not set, else its text.
SecretValues == {None, "", "key"}

Environments == [SecretNames -> SecretValues]

\* bool(value) for None and for text.
Truthy(value) == value \notin {None, ""}

\* The mutant of AppConfig: no test of the three secrets.
AppConfig_NoCheck(env) ==
    [raised |-> FALSE, did |-> <<"load_dotenv", "http_session", "newspaper_config">>]

\* Lines 65-83: load_dotenv, the three os.getenv, ValueError unless all
\* three are truthy, then the session and the newspaper configuration.
AppConfig(env) ==
    IF ~(\A name \in SecretNames : Truthy(env[name]))
    THEN [raised |-> TRUE, did |-> <<"load_dotenv">>]
    ELSE [raised |-> FALSE, did |-> <<"load_dotenv", "http_session", "newspaper_config">>]

\* Lines 423-437: the configuration, the DatabaseManager (which connects
\* and creates the table, lines 115-133), the three asserts, the clients,
\* and the read of the stored urls.
NewsScraper(env) ==
    LET config == AppConfig(env)
        db == config.did \o <<"connect", "create_table">>
    IN  IF config.raised THEN [raised |-> TRUE, did |-> config.did]
        ELSE IF \E name \in SecretNames : env[name] = None
        THEN [raised |-> TRUE, did |-> db]
        ELSE [raised |-> FALSE, did |-> db \o <<"connect", "select_urls">>]

\* Lines 491-493: run() is called on the scraper once it is constructed; it
\* generates the tasks, submits them, and the workers send requests.
Entry(env) ==
    LET scraper == NewsScraper(env)
    IN  IF scraper.raised THEN [constructed |-> FALSE, did |-> scraper.did]
        ELSE [constructed |-> TRUE,
              did |-> scraper.did \o <<"generate_search_tasks", "submit", "request">>]

-----------------------------------------------------------------------------
(* SearchStrategyManager.generate_search_tasks.  The Chinese terms of the  *)
(* tables are written in pinyin, the categories and types in English.      *)

SearchTask(query, sub_category, type) ==
    [query |-> query, sub_category |-> sub_category, type |-> type]

SEARCH_TARGETS ==
    << [category |-> "hair dryer", terms |-> <<"gaosu chuifengji", "hair dryer">>],
       [category |-> "beauty device",
        terms |-> <<"meirongyi", "beauty device", "RF beauty device", "microcurrent device">>],
       [category |-> "massager", terms |-> <<"jinmoqiang", "massage gun">>] >>

SEARCH_MODIFIERS ==
    << [type |-> "tech innovation",
        terms |-> <<"zhanhui", "jishu", "xinpin", "zhuanli",
                    "new technology", "innovation", "patent", "launch">>],
       [type |-> "market review", terms |-> <<"pingce", "duibi", "review", "vs">>],
       [type |-> "regulation",
        terms |-> <<"jianguan", "fagui", "FDA approval", "clinical trial">>],
       [type |-> "industry report",
        terms |-> <<"hangye baogao", "shichang qushi", "market research", "industry report">>] >>

TARGETED_SOURCES ==
    << [domain |-> "36kr.com",
        keywords |-> <<"meirong keji", "gehu jiadian", "xiaofei dianzi">>],
       [domain |-> "geekpark.net", keywords |-> <<"zhineng yingjian", "xiaofei dianzi">>],
       [domain |-> "techcrunch.com",
        keywords |-> <<"beauty tech", "personal care", "hardware">>],
       [domain |-> "theverge.com", keywords |-> <<"personal care", "gadgets", "review">>] >>

\* The lists of a list, one after the other: what nested for loops append.
RECURSIVE Concat(_)
Concat(lists) ==
    IF lists = <<>> THEN <<>> ELSE Head(lists) \o Concat(Tail(lists))

\* Line 218: f'"{term}" "{mod_term}"'.
PairQuery(term, mod_term) == "\"" \o term \o "\" \"" \o mod_term \o "\""

\* Line 222: f'"{keyword}" site:{source["domain"]}'.
SiteQuery(keyword, domain) == "\"" \o keyword \o "\" site:" \o domain

\* Lines 214-219: the four nested loops over targets, their terms, the
\* modifiers and their terms.
PairTasks ==
    Concat([i \in 1..Len(SEARCH_TARGETS) |->
        LET target == SEARCH_TARGETS[i]
        IN  Concat([j \in 1..Len(target.terms) |->
                Concat([k \in 1..Len(SEARCH_MODIFIERS) |->
                    LET modifier == SEARCH_MODIFIERS[k]
                    IN  [n \in 1..Len(modifier.terms) |->
                            SearchTask(PairQuery(target.terms[j], modifier.terms[n]),
                                       target.category, modifier.type)]])])])

\* Lines 220-223: the two nested loops over the sources and their keywords.
SiteTasks ==
    Concat([i \in 1..Len(TARGETED_SOURCES) |->
        LET source == TARGETED_SOURCES[i]
        IN  [k \in 1..Len(source.keywords) |->
                SearchTask(SiteQuery(source.keywords[k], source.domain),
                           INDUSTRY_NEWS, source.domain)]])

\* The mutant of generate_search_tasks: the targeted sources are left out.
generate_search_tasks_NoSources == PairTasks

\* Lines 211-225.
generate_search_tasks == PairTasks \o SiteTasks

\* A text as the sequence of its characters.
Chars(text) == [i \in 1..Len(text) |-> SubSeq(text, i, i)]

\* Links a search restricted to site:domain returns: a page of the domain
\* and a page of its www host.
SitePages(domain) ==
    { Chars("https://" \o domain \o "/news/1"),
      Chars("https://www." \o domain \o "/news/1") }

AllSitePages ==
    UNION {SitePages(TARGETED_SOURCES[i].domain) : i \in 1..Len(TARGETED_SOURCES)}

-----------------------------------------------------------------------------
(* The functions of the program called on their own: one argument, drawn   *)
(* from the values the function can be given, and the same call repeated.  *)

CallArgs ==
    {[fn |-> "fetch_article", arg |-> script] : script \in AllFetchScripts}
        \cup {[fn |-> fn, arg |-> response] :
                 fn \in {"analyze_article", "evaluate_value"},
                 response \in AllLlmResponses}
        \cup {[fn |-> "is_url_blacklisted", arg |-> url] : url \in UrlSamples \cup AllSitePages}
        \cup {[fn |-> "NewsScraper", arg |-> env] : env \in Environments}
        \cup {[fn |-> "extract_metadata", arg |-> item] : item \in AllItemShapes}
        \cup {[fn |-> "generate_search_tasks", arg |-> <<>>]}

CallInit ==
    /\ fn_call \in CallArgs
    /\ fn_results = <<>>
    /\ store = <<>>
    /\ loaded = {}
    /\ existing_urls = {}
    /\ Idle
    /\ mainpc = "idle"
    /\ NoSave
    /\ NoTxn
    /\ NoDash

\* The call returns (or raises) and its outcome is kept.
Called(value) ==
    /\ Len(fn_results) < MaxCalls
    /\ fn_results' = Append(fn_results, value)
    /\ UNCHANGED <<fn_call, store, pipeline_vars, save_vars, txn, dash>>

FetchArticleCall ==
    /\ fn_call.fn = "fetch_article"
    /\ Called(fetch_article(fn_call.arg))

AnalyzeArticleCall ==
    /\ fn_call.fn = "analyze_article"
    /\ Called(analyze_article(fn_call.arg))

EvaluateValueCall ==
    /\ fn_call.fn = "evaluate_value"
    /\ Called(evaluate_value(fn_call.arg))

IsUrlBlacklistedCall ==
    /\ fn_call.fn = "is_url_blacklisted"
    /\ Called(is_url_blacklisted(fn_call.arg))

\* The program is started with the environment fn_call.arg.
EntryCall ==
    /\ fn_call.fn = "NewsScraper"
    /\ Called(Entry(fn_call.arg))

GenerateSearchTasksCall ==
    /\ fn_call.fn = "generate_search_tasks"
    /\ Called(generate_search_tasks)

ExtractMetadataCall ==
    /\ fn_call.fn = "extract_metadata"
    /\ Called(extract_metadata(fn_call.arg))

CallNext ==
    \/ FetchArticleCall
    \/ AnalyzeArticleCall
    \/ EvaluateValueCall
    \/ IsUrlBlacklistedCall
    \/ EntryCall
    \/ GenerateSearchTasksCall
    \/ ExtractMetadataCall

CallSpec == CallInit /\ [][CallNext]_vars

\* The number of the first attempt that does not raise, 0 when all raise.
FirstSuccess(script) ==
    LET good == {i \in 1..Len(script) : ~script[i].raised}
    IN  IF good = {} THEN 0 ELSE CHOOSE i \in good : \A j \in good : i <= j

\* C12: fetch_article makes at most RETRY_COUNT attempts: it returns the
\* article of the first attempt that succeeds, gives None only after
\* RETRY_COUNT failed attempts, and has slept once between two consecutive
\* attempts and not after the last.
C12_BoundedRetries ==
    fn_call.fn = "fetch_article" =>
        \A k \in 1..Len(fn_results) :
            LET r == fn_results[k]
                first == FirstSuccess(fn_call.arg)
            IN  /\ r.attempts <= RETRY_COUNT
                /\ r.sleeps = r.attempts - 1
                /\ first > 0 => r.found /\ r.attempts = first /\ r.article = fn_call.arg[first]
                /\ first = 0 => ~r.found /\ r.attempts = RETRY_COUNT

\* A call whose last allowed attempt was the first to succeed.
C12_Witness ==
    /\ fn_call.fn = "fetch_article"
    /\ Len(fn_results) >= 1
    /\ fn_results[1].found
    /\ fn_results[1].attempts = RETRY_COUNT
    /\ fn_results[1].sleeps = RETRY_COUNT - 1

\* The request, or the decoding of its content, failed: no JSON object came.
LlmFailure(response) ==
    \/ response.http # "ok"
    \/ response.text \in {"empty", "invalid", "fenced_open"}
    \/ response.value.kind # "object"

\* C13: analyze_article and evaluate_value raise nothing and return a JSON
\* object or null, and null whenever the request or the decoding failed.
C13_ObjectOrNull ==
    fn_call.fn \in {"analyze_article", "evaluate_value"} =>
        \A k \in 1..Len(fn_results) :
            /\ fn_results[k].kind \in {"object", "null"}
            /\ LlmFailure(fn_call.arg) => fn_results[k].kind = "null"

\* C14: search raises nothing: a task whose search gave no items, for a
\* failure of the request or of the decoding as for an empty answer, has
\* returned an empty list of articles.
C14_SearchFailsSoft ==
    \A t \in Tasks :
        pc[t] # "queued" /\ search_results[t] = <<>> =>
            pc[t] = "returned" /\ articles[t] = <<>>

\* The URLs the filter is to reject: empty, without the http or https
\* scheme, not parsable, a host holding a blacklisted domain, a lower-cased
\* path ending in a blacklisted extension.
ToReject(url) ==
    \/ url = <<>>
    \/ ~HasScheme(url)
    \/ urlparse(url).raised
    \/ \E d \in DOMAIN_BLACKLIST : Contains(urlparse(url).netloc, d)
    \/ \E e \in EXTENSION_BLACKLIST : EndsWith(Lower(urlparse(url).path), e)

Finished(t) == pc[t] \in {"returned", "raised"}

\* A step that changes the table is the save_articles call of the main
\* thread on the collected articles, made when every task has finished.
StoreWrite ==
    store' # store =>
        /\ mainpc = "collect"
        /\ mainpc' \in {"done", "crashed"}
        /\ \A t \in Tasks : Finished(t)
        /\ collected = Tasks
        /\ UNCHANGED <<pc, articles, existing_urls, all_articles>>
        /\ saved_batch' = all_articles
        /\ store' = save_articles(store, all_articles).rows

\* C16: the table is written by one save_articles call of the main thread,
\* made after every task has finished: no step of a worker changes it, no
\* row of the run is in it while a task is queued or running, and nothing
\* is written after that call.
C16_SingleWriteAfterJoin ==
    /\ []((\E t \in Tasks : ~Finished(t)) => NewRows = <<>>)
    /\ [](mainpc \in {"done", "crashed"} => saved_batch = all_articles)
    /\ [][StoreWrite]_vars

\* The run wrote the articles two workers returned.
C16_Witness ==
    /\ mainpc = "done"
    /\ Len(NewRows) >= 2
    /\ \A t \in Tasks : pc[t] = "returned" /\ articles[t] # <<>>

-----------------------------------------------------------------------------
(* save_articles statement by statement, in a run that can be killed, and  *)
(* the runs started afterwards on the same table.  mainpc: "collect" (the  *)
(* run has not reached save_articles), "saving" (the connection is open),  *)
(* "done", "killed".  txn.rows is the table as the open connection sees    *)
(* it, store the committed one.                                            *)

Txn(run, open, rows, next, saved_count_) ==
    [run |-> run, open |-> open, rows |-> rows, next |-> next, saved_count |-> saved_count_]

Reverse(s) == [i \in 1..Len(s) |-> s[Len(s) + 1 - i]]

\* The mutant of CommittedRows: a connection in autocommit mode.
CommittedRows_Autocommit(committed, working) == working

\* The committed table after an INSERT on a connection of the sqlite3
\* module: the statement runs in a transaction the module has opened, and
\* nothing is committed before conn.commit() (line 171).
CommittedRows(committed, working) == committed

KillInit ==
    /\ store \in MoreStores
    /\ sv_batch \in SeqsUpTo(SvArticles, MaxBatch)
    /\ sv_snaps = <<store>>
    /\ sv_rets = <<>>
    /\ txn = Txn(1, FALSE, <<>>, 0, 0)
    /\ loaded = {}
    /\ existing_urls = {}
    /\ Idle
    /\ mainpc = "collect"
    /\ NoCalls
    /\ NoDash

\* Lines 477-478 and 151-155: an empty batch is not saved; else the lock
\* is taken, the connection opened and saved_count set to 0.
BeginSave ==
    /\ mainpc = "collect"
    /\ IF sv_batch = <<>>
       THEN /\ mainpc' = "done"
            /\ sv_rets' = Append(sv_rets, [killed |-> FALSE, saved_count |-> 0])
            /\ UNCHANGED txn
       ELSE /\ mainpc' = "saving"
            /\ txn' = Txn(txn.run, TRUE, store, 1, 0)
            /\ UNCHANGED sv_rets
    /\ UNCHANGED <<store, sv_batch, sv_snaps>>

\* Lines 156-170: one turn of the for loop.
InsertRow ==
    /\ mainpc = "saving"
    /\ txn.next <= Len(sv_batch)
    /\ LET done == execute_insert(txn.rows, sv_batch[txn.next])
       IN  /\ txn' = Txn(txn.run, TRUE, done.rows, txn.next + 1,
                         IF done.raised THEN txn.saved_count ELSE txn.saved_count + 1)
           /\ store' = CommittedRows(store, done.rows)
    /\ UNCHANGED <<mainpc, sv_batch, sv_snaps, sv_rets>>

\* Lines 171-172: conn.commit() and the return.
Commit ==
    /\ mainpc = "saving"
    /\ txn.next > Len(sv_batch)
    /\ store' = txn.rows
    /\ txn' = Txn(txn.run, FALSE, <<>>, 0, 0)
    /\ sv_rets' = Append(sv_rets, [killed |-> FALSE, saved_count |-> txn.saved_count])
    /\ mainpc' = "done"
    /\ UNCHANGED <<sv_batch, sv_snaps>>

\* The process is terminated: what the open connection had not committed
\* is rolled back.
Kill ==
    /\ mainpc \in {"collect", "saving"}
    /\ txn.run < MaxRuns
    /\ mainpc' = "killed"
    /\ txn' = Txn(txn.run, FALSE, <<>>, 0, 0)
    /\ sv_rets' = Append(sv_rets, [killed |-> TRUE, saved_count |-> txn.saved_count])
    /\ UNCHANGED <<store, sv_batch, sv_snaps>>

\* The program is started again on the table and collects the same
\* articles, in the same or in the opposite order.
Restart ==
    /\ mainpc = "killed"
    /\ mainpc' = "collect"
    /\ txn' = Txn(txn.run + 1, FALSE, <<>>, 0, 0)
    /\ sv_batch' \in {sv_batch, Reverse(sv_batch)}
    /\ sv_snaps' = Append(sv_snaps, store)
    /\ UNCHANGED <<store, sv_rets>>

KillNext ==
    \/ BeginSave /\ UNCHANGED <<loaded, existing_urls, pc, search_results, idx, last, articles, all_articles, collected, saved_batch, saved_count, passed, call_vars, dash>>
    \/ InsertRow /\ UNCHANGED <<loaded, existing_urls, pc, search_results, idx, last, articles, all_articles, collected, saved_batch, saved_count, passed, call_vars, dash>>
    \/ Commit /\ UNCHANGED <<loaded, existing_urls, pc, search_results, idx, last, articles, all_articles, collected, saved_batch, saved_count, passed, call_vars, dash>>
    \/ Kill /\ UNCHANGED <<loaded, existing_urls, pc, search_results, idx, last, articles, all_articles, collected, saved_batch, saved_count, passed, call_vars, dash>>
    \/ Restart /\ UNCHANGED <<loaded, existing_urls, pc, search_results, idx, last, articles, all_articles, collected, saved_batch, saved_count, passed, call_vars, dash>>

KillSpec == KillInit /\ [][KillNext]_vars

\* The table as it was when the current run started.
AtRunStart == sv_snaps[Len(sv_snaps)]

\* C17: until save_articles commits, and so whenever the run is killed
\* before that, the committed table is what it was when the run started;
\* a run that completes commits what save_articles makes of that table, and
\* the table never has two rows with the same url.
C17_KillLeavesStore ==
    /\ mainpc \in {"collect", "saving", "killed"} => store = AtRunStart
    /\ mainpc = "done" => store = save_articles(AtRunStart, sv_batch).rows
    /\ UniqueUrls

\* A run was killed after an INSERT it had not committed, and the run
\* started after it has inserted rows and ended.
C17_Witness ==
    /\ mainpc = "done"
    /\ txn.run = 2
    /\ sv_rets[1].killed
    /\ sv_rets[1].saved_count >= 1
    /\ sv_rets[2].saved_count >= 1

-----------------------------------------------------------------------------
(* The run under fair scheduling: a worker that can take a step takes one, *)
(* and so does the main thread.  Every request of the model returns or     *)
(* fails, none hangs.                                                      *)

WorkerStep(t) == Search(t) \/ TestUrl(t) \/ AddUrl(t) \/ ProcessSingleArticle(t)

MainStep == (\E t \in Tasks : Collect(t)) \/ SaveAndReport

FairSpec == Spec /\ (\A t \in Tasks : WF_vars(WorkerStep(t))) /\ WF_vars(MainStep)

\* run() has returned normally: every task was collected, the batch was
\* given to save_articles, and no exception left run().
RunReturned ==
    /\ mainpc = "done"
    /\ collected = Tasks
    /\ \A t \in Tasks : Finished(t)
    /\ all_articles # <<>> => saved_batch = all_articles

\* C18: under fair scheduling every run reaches the normal return of run(),
\* with every task finished and the collected batch saved.
C18_RunCompletes == <>RunReturned

-----------------------------------------------------------------------------
(* Start-up and the generation of the search tasks.                        *)

\* What counts as work: the store, the tasks, the network.
Work == {"connect", "create_table", "select_urls", "generate_search_tasks", "submit", "request"}

SecretMissing(env) == \E name \in SecretNames : env[name] \in {None, ""}

\* C19: when one of the three secrets is missing or empty the scraper is
\* not constructed and nothing was done to the store, the tasks or the
\* network before the error; with the three secrets set it is constructed.
C19_MissingSecretFatal ==
    fn_call.fn = "NewsScraper" =>
        \A k \in 1..Len(fn_results) :
            IF SecretMissing(fn_call.arg)
            THEN /\ ~fn_results[k].constructed
                 /\ Range(fn_results[k].did) \cap Work = {}
            ELSE /\ fn_results[k].constructed
                 /\ "select_urls" \in Range(fn_results[k].did)

\* The program was started with an empty search scope id and nothing else
\* missing.
C19_Witness ==
    /\ fn_call.fn = "NewsScraper"
    /\ fn_call.arg["SEARCH_ENGINE_ID"] = ""
    /\ fn_call.arg["GOOGLE_API_KEY"] = "key"
    /\ fn_call.arg["DEEPSEEK_API_KEY"] = "key"
    /\ Len(fn_results) >= 1

\* The terms of all the records of a table, in order.
AllTerms(table) == Concat([i \in 1..Len(table) |-> table[i].terms])

\* The keywords of all the sources, in order.
AllKeywords == Concat([i \in 1..Len(TARGETED_SOURCES) |-> TARGETED_SOURCES[i].keywords])

\* The positions of a list that hold the value.
PositionsOf(list, value) == {p \in 1..Len(list) : list[p] = value}

\* C20: generate_search_tasks returns one task for every seed term and
\* modifier term, with the quoted pair as query, the topic as sub_category
\* and the modifier type as type, one task for every keyword of every
\* source, with the site query, and nothing else: 8 x 20 + 11 tasks; a
\* second call returns the same list.
C20_TaskCrossProduct ==
    fn_call.fn = "generate_search_tasks" =>
        /\ \A k \in 1..Len(fn_results) :
            LET tasks == fn_results[k]
            IN  /\ \A i \in 1..Len(SEARCH_TARGETS), m \in 1..Len(SEARCH_MODIFIERS) :
                     \A j \in 1..Len(SEARCH_TARGETS[i].terms) :
                       \A n \in 1..Len(SEARCH_MODIFIERS[m].terms) :
                         Cardinality(PositionsOf(tasks,
                             SearchTask(PairQuery(SEARCH_TARGETS[i].terms[j],
                                                  SEARCH_MODIFIERS[m].terms[n]),
                                        SEARCH_TARGETS[i].category,
                                        SEARCH_MODIFIERS[m].type))) = 1
                /\ \A i \in 1..Len(TARGETED_SOURCES) :
                     \A j \in 1..Len(TARGETED_SOURCES[i].keywords) :
                         Cardinality(PositionsOf(tasks,
                             SearchTask(SiteQuery(TARGETED_SOURCES[i].keywords[j],
                                                  TARGETED_SOURCES[i].domain),
                                        INDUSTRY_NEWS,
                                        TARGETED_SOURCES[i].domain))) = 1
                /\ Len(tasks) = Len(AllTerms(SEARCH_TARGETS)) * Len(AllTerms(SEARCH_MODIFIERS))
                                    + Len(AllKeywords)
                /\ Len(tasks) = 8 * 20 + 11
                /\ tasks[1].query = "\"gaosu chuifengji\" \"zhanhui\""
                /\ tasks[Len(tasks)].query = "\"review\" site:theverge.com"
        /\ \A k, l \in 1..Len(fn_results) : fn_results[k] = fn_results[l]
        /\ store = <<>> /\ existing_urls = {}

\* generate_search_tasks was called twice.
C20_Witness ==
    /\ fn_call.fn = "generate_search_tasks"
    /\ Len(fn_results) = 2
    /\ Len(fn_results[2]) > 0

-----------------------------------------------------------------------------
(* The stages of process_single_article.                                   *)

IsPrefix(s, t) == Len(s) <= Len(t) /\ SubSeq(t, 1, Len(s)) = s

\* The stages of a call in the order of the code.
StageOrder == <<"filter", "metadata", "fetch", "analyze", "evaluate">>

\* C21: the stages of a call of process_single_article come in the order
\* filter, fetch, classification, scoring, each only after the one before
\* it passed: no fetch of a blacklisted url, no classification unless the
\* fetch gave a text of the minimum length, no scoring unless the
\* classification returned an object that is not the unrelated one.
C21_StagesInOrder ==
    /\ IsPrefix(last.stages, StageOrder)
    /\ "fetch" \in Range(last.stages) => ~Blacklisted[last.url]
    /\ "analyze" \in Range(last.stages) => last.fetched = "ok"
    /\ "evaluate" \in Range(last.stages) => last.analysis = "object"

\* A call went through every stage and built an article.
C21_Witness ==
    /\ last.stages = StageOrder
    /\ last.result = "article"

-----------------------------------------------------------------------------
(* fetch_article and the text of the page.                                 *)

\* The number of the first attempt that does not raise and extracts some
\* text, 0 when there is none.
FirstWithText(script) ==
    LET good == {i \in 1..Len(script) : ~script[i].raised /\ script[i].text_len > 0}
    IN  IF good = {} THEN 0 ELSE CHOOSE i \in good : \A j \in good : i <= j

\* C22: in fetch_article an attempt that extracts an empty text is a failed
\* attempt like one that raises: the call goes on to the next attempt until
\* one extracts some text or RETRY_COUNT attempts were made.
C22_EmptyTextRetried ==
    fn_call.fn = "fetch_article" =>
        \A k \in 1..Len(fn_results) :
            LET r == fn_results[k]
                first == FirstWithText(fn_call.arg)
            IN  /\ first > 0 => r.attempts = first /\ r.article = fn_call.arg[first]
                /\ first = 0 => r.attempts = RETRY_COUNT


\* C23: a fetch that returns an article whose text is shorter than
\* MIN_TEXT_LEN, the empty text included, ends the call after the fetch with
\* None and without a classification or scoring call; a text of MIN_TEXT_LEN
\* characters or more goes on to the classification.
C23_ShortTextRejected ==
    /\ last.fetched = "short" =>
          /\ last.stages = <<"filter", "metadata", "fetch">>
          /\ last.analysis = ""
          /\ last.evaluation = ""
          /\ last.result = "none"
    /\ last.fetched = "ok" => "analyze" \in Range(last.stages)

\* A fetched page was too short, and its task went on or returned.
C23_Witness ==
    /\ last.fetched = "short"
    /\ last.result = "none"
    /\ pc[last.task] \in {"test", "returned"}

-----------------------------------------------------------------------------
(* The dedup set during a run.                                             *)

\* The url of the candidate the worker of task t is at.
CurrentUrl(t) == search_results[t][idx[t]]

\* The dedup set only grows.
DedupGrows == existing_urls \subseteq existing_urls'

\* C24: whenever process_single_article (the blacklist filter, the fetch
\* and the two enrichment calls) is running or about to run for a url, the
\* url is in the dedup set; the set only grows and always holds the urls
\* loaded from the store.
C24_ClaimPrecedesWork ==
    /\ [](\A t \in Tasks : pc[t] = "process" => CurrentUrl(t) \in existing_urls)
    /\ [](last.url # None => last.url \in existing_urls)
    /\ [](loaded \subseteq existing_urls)
    /\ [][DedupGrows]_vars

\* A worker has claimed a url that was not loaded and is about to process it.
C24_Witness ==
    \E t \in Tasks :
        /\ pc[t] = "process"
        /\ CurrentUrl(t) \notin loaded
        /\ loaded # {}

-----------------------------------------------------------------------------
(* The order of the candidates of a task.                                  *)

\* The first position of the url in the results of task t.
FirstPos(t, url) ==
    CHOOSE i \in 1..Len(search_results[t]) :
        /\ search_results[t][i] = url
        /\ \A j \in 1..(i - 1) : search_results[t][j] # url

\* The articles of task t come from the results the loop has reached, in
\* the order of the results.
InResultOrder(t) ==
    /\ \A i \in 1..Len(articles[t]) :
          /\ articles[t][i].url \in Range(search_results[t])
          /\ FirstPos(t, articles[t][i].url) <= idx[t]
    /\ \A i, j \in 1..Len(articles[t]) :
          i < j => FirstPos(t, articles[t][i].url) < FirstPos(t, articles[t][j].url)

\* The loop of a task moves by one result at a time, and its list grows
\* only at its end, by the article of the result the loop is at.
OneAtATime ==
    \A t \in Tasks :
        /\ idx'[t] \in {idx[t], idx[t] + 1}
        /\ pc[t] = "add" => idx'[t] = idx[t]
        /\ articles'[t] # articles[t] =>
              /\ pc[t] = "process"
              /\ Len(articles'[t]) = Len(articles[t]) + 1
              /\ SubSeq(articles'[t], 1, Len(articles[t])) = articles[t]
              /\ articles'[t][Len(articles'[t])].url = CurrentUrl(t)

\* C25: a task processes its candidates one at a time in the order of the
\* search results, the next only after the call for the one before it has
\* ended, and the articles it returns are in that order.
C25_SequentialInOrder == [](\A t \in Tasks : InResultOrder(t)) /\ [][OneAtATime]_vars

\* A task returned two articles.
C25_Witness ==
    \E t \in Tasks :
        /\ pc[t] = "returned"
        /\ Len(articles[t]) = 2
        /\ articles[t][1].url = search_results[t][1]

-----------------------------------------------------------------------------
(* The title, the author and the date of an accepted article.              *)

\* C26: every article process_single_article has returned and every row
\* of the store has a title that is not empty.
C26_TitleNonEmpty ==
    /\ \A t \in Tasks : \A i \in 1..Len(articles[t]) : articles[t][i].title # ""
    /\ \A i \in 1..Len(store) : store[i].title # ""


\* The item has an author tag.
HasAuthor(item) ==
    /\ item.pagemap
    /\ item.metatags
    /\ item.tags # <<>>
    /\ item.tags[1].author # Missing

\* A yyyy-mm-dd text.
IsDate(text) == Len(text) = 10 /\ text[5] = "-" /\ text[8] = "-"

\* C27: extract_metadata returns for every shape of the item, the author
\* is the unknown value when the item has no author tag, and the
\* publish_date of the article made from it is a date or the unknown value.
C27_MetadataNeverRaises ==
    fn_call.fn = "extract_metadata" =>
        \A k \in 1..Len(fn_results) :
            /\ ~fn_results[k].raised
            /\ ~HasAuthor(fn_call.arg) => fn_results[k].author = UNKNOWN
            /\ \A has_date \in BOOLEAN :
                  LET publish_date == PublishDate(fn_results[k].publish_date, has_date)
                  IN  IsDate(publish_date) \/ publish_date = UNKNOWN_DATE

-----------------------------------------------------------------------------
(* The batch and the tasks that raised.                                    *)

\* The collected tasks that returned a list.
CollectedReturned == {t \in collected : pc[t] = "returned"}

\* The ways to put the tasks of S in a row.
Orders(S) ==
    {order \in [1..Cardinality(S) -> S] :
        \A i, j \in 1..Cardinality(S) : order[i] = order[j] => i = j}

\* all_articles is the lists of the collected tasks that returned, one
\* after the other, in the order they were collected.
BatchOfReturned ==
    \E order \in Orders(CollectedReturned) :
        all_articles = Concat([i \in 1..Len(order) |-> articles[order[i]]])

\* Collecting a task adds its list when it returned and nothing when it raised.
CollectStep ==
    \A t \in collected' \ collected :
        all_articles' = all_articles \o (IF pc[t] = "returned" THEN articles[t] ELSE <<>>)

\* C28: the batch given to save_articles is the lists of the tasks that
\* returned, one after the other; the articles a task had accepted before it
\* raised are not in it, and the rows the run writes come from the batch.
C28_BatchOfReturnedTasks ==
    /\ []BatchOfReturned
    /\ [](Terminated /\ all_articles # <<>> => saved_batch = all_articles)
    /\ [](\A i \in 1..Len(NewRows) : NewRows[i] \in Range(all_articles))
    /\ [][CollectStep]_vars

\* The run has ended, a task that had accepted an article raised on a later
\* candidate, and another task returned an article.
C28_Witness ==
    /\ mainpc = "done"
    /\ \E t \in Tasks : pc[t] = "raised" /\ articles[t] # <<>>
    /\ \E t \in Tasks : pc[t] = "returned" /\ articles[t] # <<>>
    /\ Len(all_articles) = 1

-----------------------------------------------------------------------------
(* Claimed urls that were rejected.                                        *)

\* The call of process_single_article that task t made for the url has ended.
ProcessedBy(t, url) ==
    /\ <<t, url>> \in passed
    /\ \/ pc[t] \in {"returned", "raised"}
       \/ idx[t] > FirstPos(t, url)

\* Task t claimed the url and has no article of it to return: the call gave
\* None or raised, or the task raised later.
RejectedBy(t, url) ==
    /\ ProcessedBy(t, url)
    /\ \/ pc[t] = "raised"
       \/ url \notin UrlsOf(articles[t])

\* No url that one task has rejected is about to be processed by a task.
NotProcessedAgain ==
    \A url \in Links : \A t1, t2 \in Tasks :
        RejectedBy(t1, url) => ~(pc[t2] = "process" /\ CurrentUrl(t2) = url)

\* A url that was not loaded and that every task that claimed it rejected
\* is not in the store.
RejectedNotStored ==
    \A url \in Links \ loaded :
        Claimants(url) # {} /\ (\A t \in Claimants(url) : RejectedBy(t, url))
            => url \notin get_existing_urls(store)

\* C29: a claimed url whose processing ended in a rejection, a failure or
\* an exception stays in the dedup set for the rest of the run, no task
\* processes it again, and it is not written to the store.
C29_RejectedStaysClaimed ==
    /\ [](\A url \in Links : \A t \in Tasks : RejectedBy(t, url) => url \in existing_urls)
    /\ []NotProcessedAgain
    /\ []RejectedNotStored
    /\ [][existing_urls \subseteq existing_urls']_vars

-----------------------------------------------------------------------------
(* The targeted sources and the blacklist.                                 *)

\* The domain is matched by the domain blacklist.
DomainBlacklisted(domain) ==
    \E blacklisted_domain \in DOMAIN_BLACKLIST : Contains(Chars(domain), blacklisted_domain)

\* C30: no task of generate_search_tasks is dead on arrival: no domain of
\* TARGETED_SOURCES is matched by DOMAIN_BLACKLIST, and the filter lets the
\* pages of every site-restricted task through.
C30_NoDeadTask ==
    fn_call.fn = "is_url_blacklisted" =>
        \A i \in 1..Len(TARGETED_SOURCES) : \A k \in 1..Len(fn_results) :
            fn_call.arg \in SitePages(TARGETED_SOURCES[i].domain) =>
                /\ ~fn_results[k]
                /\ ~DomainBlacklisted(TARGETED_SOURCES[i].domain)

-----------------------------------------------------------------------------
(* The article list of the dashboard (dashboard.py, main): every click and *)
(* every change of a filter runs the script again.  dash.page is           *)
(* st.session_state.page (has_page: the key is set), dash.filtered is      *)
(* len(filtered_df) of the last run, dash.shown the number of article      *)
(* cards it rendered and dash.enabled the buttons it rendered enabled.     *)

\* Line 589.
total_pages(filtered) == (filtered - 1) \div items_per_page + 1

\* Lines 583-618: one run of the script for a filtered result of the given
\* length, with the button that was clicked ("" for none).  An empty result
\* renders neither buttons nor cards and leaves the page alone; else each
\* button is rendered with its disabled flag and, when st.button returns
\* True for it, changes the page before the next button is rendered.  A
\* clicked button that this run renders disabled returns True or False with
\* the version of streamlit: fires_disabled says which.
render(has_page, page, filtered, clicked, fires_disabled) ==
    IF filtered = 0
    THEN [has_page |-> has_page, page |-> page, filtered |-> 0, shown |-> 0, enabled |-> {}]
    ELSE LET total == total_pages(filtered)
             p0 == IF has_page THEN page ELSE 0
             p1 == IF clicked = "first" /\ (p0 # 0 \/ fires_disabled) THEN 0 ELSE p0
             p2 == IF clicked = "prev" /\ (p1 # 0 \/ fires_disabled) THEN p1 - 1 ELSE p1
             p3 == IF clicked = "next" /\ (p2 < total - 1 \/ fires_disabled) THEN p2 + 1 ELSE p2
             p4 == IF clicked = "last" /\ (p3 < total - 1 \/ fires_disabled) THEN total - 1 ELSE p3
             start_idx == p4 * items_per_page
             end_idx == IF start_idx + items_per_page < filtered
                        THEN start_idx + items_per_page ELSE filtered
         IN  [has_page |-> TRUE, page |-> p4, filtered |-> filtered,
              shown |-> IF end_idx > start_idx THEN end_idx - start_idx ELSE 0,
              enabled |-> {b \in {"first"} : p0 # 0} \cup {b \in {"prev"} : p1 # 0}
                            \cup {b \in {"next"} : p2 < total - 1}
                            \cup {b \in {"last"} : p3 < total - 1}]

DashInit ==
    /\ NoDash
    /\ store = <<>>
    /\ loaded = {}
    /\ existing_urls = {}
    /\ Idle
    /\ mainpc = "idle"
    /\ NoSave
    /\ NoCalls
    /\ NoTxn

\* The page is loaded, or a filter of the sidebar is changed: apply_filters
\* gives a result of any length.
FilterChange ==
    \E filtered \in 0..MaxFiltered :
        dash' = render(dash.has_page, dash.page, filtered, "", FALSE)

\* A button that the last run rendered enabled is clicked; the filters and
\* the result are the same.
Click(button) ==
    /\ button \in dash.enabled
    /\ \E fires_disabled \in BOOLEAN :
          dash' = render(dash.has_page, dash.page, dash.filtered, button, fires_disabled)
    /\ dash'.page >= 0 - MaxDrift
    /\ dash'.page <= total_pages(MaxFiltered) - 1 + MaxDrift

DashNext ==
    \/ FilterChange /\ UNCHANGED <<store, pipeline_vars, save_vars, call_vars, txn>>
    \/ Click("first") /\ UNCHANGED <<store, pipeline_vars, save_vars, call_vars, txn>>
    \/ Click("prev") /\ UNCHANGED <<store, pipeline_vars, save_vars, call_vars, txn>>
    \/ Click("next") /\ UNCHANGED <<store, pipeline_vars, save_vars, call_vars, txn>>
    \/ Click("last") /\ UNCHANGED <<store, pipeline_vars, save_vars, call_vars, txn>>

DashSpec == DashInit /\ [][DashNext]_vars

\* C31: after any clicks and filter changes the page index is one of the
\* pages of the filtered result, so that a result that is not empty shows
\* at least one article.
C31_PageInRange ==
    dash.filtered > 0 =>
        /\ dash.page >= 0
        /\ dash.page <= total_pages(dash.filtered) - 1
        /\ dash.shown >= 1

====
